---- MODULE Spec2Model ----
(***************************************************************************)
(* Model of the portfolio analytics backend (backend/app): the transaction *)
(* ledger (crud.py), the price history provider (market.py) and the        *)
(* analytics handlers (main.py).                                           *)
(*                                                                         *)
(* Representation.                                                         *)
(*   - A date is its proleptic Gregorian ordinal (date.toordinal()), so    *)
(*     date + timedelta(days=k) is integer addition.  The dates used are   *)
(*     far from date.min and date.max.                                     *)
(*   - Money, shares and prices are exact integers (fixed point); float    *)
(*     rounding is not modelled.                                           *)
(*   - An Optional value is a sequence of length <= 1: None is <<>>.       *)
(*   - A dict is a sequence of entries in insertion order.                 *)
(*   - category and price_at_trade are stored but never read by any        *)
(*     computation, and are left out of the transaction record.            *)
(***************************************************************************)
EXTENDS Integers, Sequences, FiniteSets, TLC

VARIABLES txns, stooq, resp

vars == <<txns, stooq, resp>>

\* ------------------------------------------------------------ generic helpers

None == <<>>

Some(v) == <<v>>

Range(s) == {s[i] : i \in DOMAIN s}

RECURSIVE SumSeq(_)
SumSeq(s) == IF s = <<>> THEN 0 ELSE Head(s) + SumSeq(Tail(s))

\* All orders in which the elements of a finite set can be listed.
Perms(S) == {p \in [1..Cardinality(S) -> S] : \A i, j \in DOMAIN p : p[i] = p[j] => i = j}

\* ------------------------------------------------------------ bounds and inputs

MaxTxns == 3

Users == {1, 2}

\* 2023-12-31, 2024-01-05, 2024-01-20, 2024-02-10 as ordinals
D0 == 738885
D1 == 738890
D2 == 738905
D3 == 738926

TxnTypes == {"income", "expense", "transfer", "trade"}

\* ------------------------------------------------------------ datetime.date

\* date.year and date.month of an ordinal (the standard library's ord2ymd).
YearMonth(ord) ==
    LET n0   == ord - 1
        n400 == n0 \div 146097
        r400 == n0 % 146097
        n100 == r400 \div 36524
        r100 == r400 % 36524
        n4   == r100 \div 1461
        r4   == r100 % 1461
        n1   == r4 \div 365
        n    == r4 % 365
        year == n400 * 400 + 1 + n100 * 100 + n4 * 4 + n1
        leap == n1 = 3 /\ (n4 # 24 \/ n100 = 3)
        dbm  == <<0, 31, 59, 90, 120, 151, 181, 212, 243, 273, 304, 334>>
        m0   == (n + 50) \div 32
        prec == dbm[m0] + (IF m0 > 2 /\ leap THEN 1 ELSE 0)
    IN  IF n1 = 4 \/ n100 = 4 THEN <<year - 1, 12>>
        ELSE IF prec > n THEN <<year, m0 - 1>>
        ELSE <<year, m0>>

\* ------------------------------------------------------------ crud.py

\* The payloads add_transaction is called with (schemas.TransactionCreate).
Payload(u, d, ty, a, sym, sh) ==
    [user_id |-> u, date |-> d, type |-> ty, amount |-> a, asset_symbol |-> sym, shares |-> sh]

TxnInputs ==
    {Payload(1, D1, "income", 10000, None, None),
     Payload(1, D2, "income", 5000, None, None),
     Payload(1, D0, "expense", 2000, None, None),
     Payload(1, D3, "expense", 3000, None, None),
     Payload(1, D1, "transfer", 700, None, None),
     Payload(1, D1, "trade", 150000, Some("aapl"), Some(5)),
     Payload(1, D2, "trade", 150000, Some("aapl"), Some(-5)),
     Payload(1, D3, "trade", 40000, Some("msft"), Some(-3)),
     Payload(1, D1, "trade", 900, None, Some(7)),
     Payload(1, D1, "trade", 900, Some(""), Some(7)),
     Payload(1, D1, "trade", 900, Some("aapl"), None),
     Payload(2, D1, "income", 400, None, None),
     Payload(2, D1, "trade", 900, Some("aapl"), Some(2))}

\* Transaction(...); session.add; commit; refresh: the row gets the next id.
create_transaction(ledger, p) ==
    Append(ledger, [id |-> Len(ledger) + 1, user_id |-> p.user_id, date |-> p.date,
                    type |-> p.type, amount |-> p.amount,
                    asset_symbol |-> p.asset_symbol, shares |-> p.shares])

\* func.sum over a column: NULLs are skipped, and the sum of no value is NULL.
SqlSum(col) ==
    LET vals == SelectSeq(col, LAMBDA x : x # None)
    IN  IF vals = <<>> THEN None
        ELSE Some(SumSeq([i \in DOMAIN vals |-> vals[i][1]]))

\* `x or 0.0` on a scalar that may be None
OrZero(x) == IF x = None \/ x[1] = 0 THEN 0 ELSE x[1]

Column(rows, f) == [i \in DOMAIN rows |-> Some(rows[i][f])]

get_cash_balance_TradesAsOutflow(ledger, user_id) ==
    LET income  == OrZero(SqlSum(Column(
                     SelectSeq(ledger, LAMBDA t : t.user_id = user_id /\ t.type = "income"),
                     "amount")))
        expense == OrZero(SqlSum(Column(
                     SelectSeq(ledger, LAMBDA t : t.user_id = user_id
                                                   /\ t.type \in {"expense", "trade"}),
                     "amount")))
    IN  income - expense

get_cash_balance_ExpensesOfAll(ledger, user_id) ==
    LET income  == OrZero(SqlSum(Column(
                     SelectSeq(ledger, LAMBDA t : t.user_id = user_id /\ t.type = "income"),
                     "amount")))
        expense == OrZero(SqlSum(Column(
                     SelectSeq(ledger, LAMBDA t : t.type = "expense"),
                     "amount")))
    IN  income - expense

get_cash_balance(ledger, user_id) ==
    LET income  == OrZero(SqlSum(Column(
                     SelectSeq(ledger, LAMBDA t : t.user_id = user_id /\ t.type = "income"),
                     "amount")))
        expense == OrZero(SqlSum(Column(
                     SelectSeq(ledger, LAMBDA t : t.user_id = user_id /\ t.type = "expense"),
                     "amount")))
    IN  income - expense


\* select(Transaction) [where user_id] order_by(date, id): a stable sort by date
\* of rows that are stored in id order.
RECURSIVE InsertByDate(_, _)
InsertByDate(sorted, t) ==
    IF sorted = <<>> THEN <<t>>
    ELSE IF Head(sorted).date <= t.date THEN <<Head(sorted)>> \o InsertByDate(Tail(sorted), t)
    ELSE <<t>> \o sorted

RECURSIVE OrderByDateId(_)
OrderByDateId(rows) ==
    IF rows = <<>> THEN <<>>
    ELSE InsertByDate(OrderByDateId(SubSeq(rows, 1, Len(rows) - 1)), rows[Len(rows)])

list_transactions(ledger, user_id) ==
    OrderByDateId(SelectSeq(ledger, LAMBDA t : t.user_id = user_id))

\* The rows get_positions' statement selects before grouping.
TradeRows(ledger, user_id) ==
    SelectSeq(ledger, LAMBDA t : t.user_id = user_id /\ t.type = "trade"
                                  /\ t.asset_symbol # None)

\* group_by(asset_symbol): one group per distinct symbol.
GroupKeys(ledger, user_id) == {t.asset_symbol[1] : t \in Range(TradeRows(ledger, user_id))}

\* The orders in which the statement may return its groups (there is no ORDER BY).
RowOrders(ledger, user_id) == Perms(GroupKeys(ledger, user_id))

\* The grouped rows (asset_symbol, sum(shares)), listed in `order`.
PositionRows(ledger, user_id, order) ==
    LET trades == TradeRows(ledger, user_id)
    IN  [i \in DOMAIN order |->
            [symbol |-> order[i],
             shares |-> SqlSum([j \in DOMAIN trades |->
                           IF trades[j].asset_symbol[1] = order[i]
                           THEN trades[j].shares ELSE None])]]

get_positions_DropsNonPositive(ledger, user_id, order) ==
    LET kept == SelectSeq(PositionRows(ledger, user_id, order),
                          LAMBDA r : r.symbol # "" /\ OrZero(r.shares) > 0)
    IN  [i \in DOMAIN kept |-> [symbol |-> kept[i].symbol, shares |-> OrZero(kept[i].shares)]]

\* {symbol: float(shares or 0.0) for symbol, shares in rows if symbol}
get_positions(ledger, user_id, order) ==
    LET kept == SelectSeq(PositionRows(ledger, user_id, order), LAMBDA r : r.symbol # "")
    IN  [i \in DOMAIN kept |-> [symbol |-> kept[i].symbol, shares |-> OrZero(kept[i].shares)]]

\* ------------------------------------------------------------ main.py: cashflow

\* Python's order on (year, month) tuples
TupleLess(a, b) == a[1] < b[1] \/ (a[1] = b[1] /\ a[2] < b[2])

\* sorted(keys)
RECURSIVE SortedKeys(_)
SortedKeys(keys) ==
    IF keys = {} THEN <<>>
    ELSE LET least == CHOOSE k \in keys : \A o \in keys \ {k} : TupleLess(k, o)
         IN  <<least>> \o SortedKeys(keys \ {least})

\* The loop over txns that fills the dict `monthly`.
RECURSIVE MonthlyFold(_, _)
MonthlyFold(rows, monthly) ==
    IF rows = <<>> THEN monthly
    ELSE LET t    == Head(rows)
             key  == YearMonth(t.date)
             m1   == IF key \in DOMAIN monthly THEN monthly
                     ELSE monthly @@ (key :> [income |-> 0, expense |-> 0])
             m2   == IF t.type = "income"
                     THEN [m1 EXCEPT ![key].income = @ + t.amount]
                     ELSE [m1 EXCEPT ![key].expense = @ + t.amount]
         IN  IF t.type \notin {"income", "expense"}
             THEN MonthlyFold(Tail(rows), monthly)
             ELSE MonthlyFold(Tail(rows), m2)

cashflow_CountsTrades(ledger, user_id) ==
    LET rows    == list_transactions(ledger, user_id)
        asExp   == [i \in DOMAIN rows |->
                      IF rows[i].type = "trade" THEN [rows[i] EXCEPT !.type = "expense"]
                      ELSE rows[i]]
        monthly == MonthlyFold(asExp, <<>>)
        keys    == SortedKeys(DOMAIN monthly)
    IN  [i \in DOMAIN keys |->
            [date |-> <<keys[i][1], keys[i][2], 1>>,
             income |-> monthly[keys[i]].income,
             expense |-> monthly[keys[i]].expense,
             net |-> monthly[keys[i]].income - monthly[keys[i]].expense]]

cashflow(ledger, user_id) ==
    LET rows    == list_transactions(ledger, user_id)
        monthly == MonthlyFold(rows, <<>>)
        keys    == SortedKeys(DOMAIN monthly)
    IN  IF rows = <<>> THEN <<>>
        ELSE [i \in DOMAIN keys |->
                [date |-> <<keys[i][1], keys[i][2], 1>>,
                 income |-> monthly[keys[i]].income,
                 expense |-> monthly[keys[i]].expense,
                 net |-> monthly[keys[i]].income - monthly[keys[i]].expense]]

\* ------------------------------------------------------------ the ledger service

\* No price source is consulted by the ledger queries.
NoStooq == <<>>

\* Requests are served one at a time: a handler runs when no response is
\* pending, and its return value is the pending response until it is sent.
NoResp == [op |-> "none"]

Idle == resp = NoResp

\* The handler's return value goes out to the caller.
Reply ==
    /\ resp # NoResp
    /\ resp' = NoResp
    /\ UNCHANGED <<txns, stooq>>

InitLedger == txns = <<>> /\ stooq = NoStooq /\ resp = NoResp

\* POST /api/transactions
AddTransaction(p) ==
    /\ Idle
    /\ Len(txns) < MaxTxns
    /\ txns' = create_transaction(txns, p)
    /\ resp' = [op |-> "add_transaction", user_id |-> p.user_id,
                value |-> create_transaction(txns, p)[Len(txns) + 1]]
    /\ UNCHANGED stooq

GetCashBalance(u) ==
    /\ Idle
    /\ resp' = [op |-> "get_cash_balance", user_id |-> u, value |-> get_cash_balance(txns, u)]
    /\ UNCHANGED <<txns, stooq>>

GetPositions(u) ==
    /\ Idle
    /\ \E order \in RowOrders(txns, u) :
          resp' = [op |-> "get_positions", user_id |-> u,
                   value |-> get_positions(txns, u, order)]
    /\ UNCHANGED <<txns, stooq>>

\* GET /api/cashflow
Cashflow(u) ==
    /\ Idle
    /\ resp' = [op |-> "cashflow", user_id |-> u, value |-> cashflow(txns, u)]
    /\ UNCHANGED <<txns, stooq>>

NextLedger ==
    \/ \E p \in TxnInputs : AddTransaction(p)
    \/ \E u \in Users : GetCashBalance(u)
    \/ \E u \in Users : GetPositions(u)
    \/ \E u \in Users : Cashflow(u)
    \/ Reply

SpecLedger == InitLedger /\ [][NextLedger]_vars


\* ------------------------------------------------------------ ledger properties

\* The sum of f over the index set I (order-free reference for the checks).
RECURSIVE SumFn(_, _)
SumFn(I, f) ==
    IF I = {} THEN 0
    ELSE LET i == CHOOSE j \in I : TRUE IN f[i] + SumFn(I \ {i}, f)

\* Indices of user u's ledger rows of the given types.
RowsOf(u, types) == {i \in DOMAIN txns : txns[i].user_id = u /\ txns[i].type \in types}

Amounts == [i \in DOMAIN txns |-> txns[i].amount]

SharesOrZero == [i \in DOMAIN txns |-> IF txns[i].shares = None THEN 0 ELSE txns[i].shares[1]]

\* C1: the cash balance returned for a user is the sum of the user's income
\* amounts minus the sum of the user's expense amounts; trades and transfers in
\* the ledger do not enter it, and with no transactions it is 0.
C1_CashBalance ==
    resp.op = "get_cash_balance" =>
        /\ resp.value = SumFn(RowsOf(resp.user_id, {"income"}), Amounts)
                          - SumFn(RowsOf(resp.user_id, {"expense"}), Amounts)
        /\ resp.value = get_cash_balance(
                           SelectSeq(txns, LAMBDA t : t.type \notin {"trade", "transfer"}),
                           resp.user_id)
        /\ (RowsOf(resp.user_id, TxnTypes) = {} => resp.value = 0)

\* A balance was returned for a user who has income, expense, a trade and a transfer.
C1_Witness ==
    /\ resp.op = "get_cash_balance"
    /\ resp.value # 0
    /\ RowsOf(resp.user_id, {"income"}) # {}
    /\ RowsOf(resp.user_id, {"expense"}) # {}
    /\ RowsOf(resp.user_id, {"trade", "transfer"}) # {}

\* Indices of user u's trades whose symbol is s.
TradesOf(u, s) == {i \in RowsOf(u, {"trade"}) : txns[i].asset_symbol = Some(s)}

PositionKeys(pos) == {pos[i].symbol : i \in DOMAIN pos}

\* The entries of a position map are the unclamped per-symbol sums of shares,
\* one entry per key.
PositionValuesOk(u, pos) ==
    /\ \A i, j \in DOMAIN pos : pos[i].symbol = pos[j].symbol => i = j
    /\ \A i \in DOMAIN pos : pos[i].shares = SumFn(TradesOf(u, pos[i].symbol), SharesOrZero)

TradedSymbols(u) == {txns[i].asset_symbol[1] : i \in {j \in RowsOf(u, {"trade"}) :
                                                        txns[j].asset_symbol # None}}

\* C2 as stated: the position map has exactly the symbols of the user's trades
\* with a non-null symbol as keys, each mapped to the sum of its shares.
C2_Original ==
    resp.op = "get_positions" =>
        /\ PositionKeys(resp.value) = TradedSymbols(resp.user_id)
        /\ PositionValuesOk(resp.user_id, resp.value)

\* C2 amended: the position map has exactly the non-empty symbols of the user's
\* trades as keys (trades with a null or an empty-string symbol are excluded),
\* each mapped to the unclamped sum of its shares, zero and negative included.
C2_Positions ==
    resp.op = "get_positions" =>
        /\ PositionKeys(resp.value) = TradedSymbols(resp.user_id) \ {""}
        /\ PositionValuesOk(resp.user_id, resp.value)

\* A position map with an entry netted to zero by a buy and a sell, for a user
\* who also has a trade with an empty-string symbol.
C2_Witness ==
    /\ resp.op = "get_positions"
    /\ \E i \in DOMAIN resp.value :
          /\ resp.value[i].shares = 0
          /\ Cardinality(TradesOf(resp.user_id, resp.value[i].symbol)) = 2
    /\ TradesOf(resp.user_id, "") # {}

\* (year, month) of the dates that occur in the ledger inputs
MonthOf(d) ==
    CASE d = D0 -> <<2023, 12>>
      [] d = D1 -> <<2024, 1>>
      [] d = D2 -> <<2024, 1>>
      [] d = D3 -> <<2024, 2>>

RowsInMonth(u, ty, ym) == {i \in RowsOf(u, {ty}) : MonthOf(txns[i].date) = ym}

\* C5: cashflow has exactly one point per month with an income or expense
\* transaction of the user, in strictly ascending (year, month) order, each with
\* that month's income and expense sums and net = income - expense; trades and
\* transfers create and change no point, and no transactions give no points.
C5_Cashflow ==
    resp.op = "cashflow" =>
        LET pts    == resp.value
            u      == resp.user_id
            months == {MonthOf(txns[i].date) : i \in RowsOf(u, {"income", "expense"})}
        IN  /\ {<<pts[i].date[1], pts[i].date[2]>> : i \in DOMAIN pts} = months
            /\ Len(pts) = Cardinality(months)
            /\ \A i \in DOMAIN pts : pts[i].date[3] = 1
            /\ \A i, j \in DOMAIN pts : i < j => TupleLess(pts[i].date, pts[j].date)
            /\ \A i \in DOMAIN pts :
                  LET ym == <<pts[i].date[1], pts[i].date[2]>>
                  IN  /\ pts[i].income = SumFn(RowsInMonth(u, "income", ym), Amounts)
                      /\ pts[i].expense = SumFn(RowsInMonth(u, "expense", ym), Amounts)
                      /\ pts[i].net = pts[i].income - pts[i].expense
            /\ (RowsOf(u, TxnTypes) = {} => pts = <<>>)

\* Two incomes of one month summed in one point, an expense in a later month in
\* a second point with a negative net.
C5_Witness ==
    /\ resp.op = "cashflow"
    /\ Len(resp.value) = 2
    /\ resp.value[1].income = 15000
    /\ resp.value[2].expense = 3000 /\ resp.value[2].net = -3000

\* A user with only trades and transfers gets no point.
C5_WitnessTradesOnly ==
    /\ resp.op = "cashflow"
    /\ resp.value = <<>>
    /\ RowsOf(resp.user_id, {"trade"}) # {}


\* ------------------------------------------------------------ market.py

\* symbol.lower() and s.upper() on the symbols used
Lower(s) == CASE s = "AAPL" -> "aapl" [] OTHER -> s

Upper(s) == CASE s = "aapl" -> "AAPL" [] s = "msft" -> "MSFT" [] OTHER -> s

\* candidates = [symbol.lower(), f"{symbol.lower()}.us"]
Candidates(symbol) == <<Lower(symbol), Lower(symbol) \o ".us">>

\* One line of a response body: the number of comma-separated parts, and what
\* strptime(parts[0]) and float(parts[4]) give (None when they raise).
Line(n, d, c) == [nparts |-> n, date |-> d, close |-> c]

HeaderLine == Line(6, None, None)

\* What client.get(url) does: it raises, or returns a response with a status
\* code and a text (has_header: the text contains the CSV header; lines: the
\* stripped text's lines).
Raises == [kind |-> "raise"]

Http(status, has_header, lines) ==
    [kind |-> "http", status |-> status, has_header |-> has_header, lines |-> lines]

\* The loop over lines[1:] that builds `out`.
RECURSIVE ParseLines(_)
ParseLines(lines) ==
    IF lines = <<>> THEN <<>>
    ELSE LET l == Head(lines)
         IN  IF l.nparts < 5 \/ l.date = None \/ l.close = None
             THEN ParseLines(Tail(lines))
             ELSE <<[date |-> l.date[1], close |-> l.close[1]]>> \o ParseLines(Tail(lines))

\* out.sort(key=lambda r: r["date"]): a stable sort
RECURSIVE SortRowsByDate(_)
SortRowsByDate(rows) ==
    IF rows = <<>> THEN <<>>
    ELSE InsertByDate(SortRowsByDate(SubSeq(rows, 1, Len(rows) - 1)), rows[Len(rows)])

\* The loop over the candidates from the i-th on. The result is
\* [raised |-> TRUE] when a request raises, else [raised |-> FALSE, rows |-> ...].
RECURSIVE FetchFrom(_, _, _)
FetchFrom(world, cands, i) ==
    IF i > Len(cands) THEN [raised |-> FALSE, rows |-> <<>>]
    ELSE LET r == world[cands[i]]
         IN  IF r.kind = "raise" THEN [raised |-> TRUE, rows |-> <<>>]
             ELSE IF r.status = 200 /\ r.has_header
                  THEN IF Len(r.lines) <= 1 THEN FetchFrom(world, cands, i + 1)
                       ELSE IF ParseLines(Tail(r.lines)) # <<>>
                            THEN [raised |-> FALSE,
                                  rows |-> SortRowsByDate(ParseLines(Tail(r.lines)))]
                            ELSE FetchFrom(world, cands, i + 1)
                  ELSE FetchFrom(world, cands, i + 1)

fetch_stooq_history(world, symbol) == FetchFrom(world, Candidates(symbol), 1)

daterange_ExcludesEnd(start, end) ==
    IF start < end THEN [k \in 1..(end - start) |-> start + (k - 1)] ELSE <<>>

\* while cur <= end: res.append(cur); cur = cur + timedelta(days=1)
\* The loop runs end - start + 1 times when start <= end, and not at all
\* otherwise; its k-th pass appends start + (k - 1) days.
daterange(start, end) ==
    IF start <= end THEN [k \in 1..(end - start + 1) |-> start + (k - 1)] ELSE <<>>

\* start_price = 100.0, in hundredths
StartPrice == 10000

\* The random draws of one simulated path: math.exp(random.gauss(...)) of step i,
\* in percent. A path's draws are one of these sequences.
GbmDraws == {"up", "zigzag"}

ExpShock(draw, i) ==
    CASE draw = "up" -> 101
      [] draw = "zigzag" -> IF i % 2 = 0 THEN 110 ELSE 90

\* The points that passes lo..hi of simulate_gbm's loop append, given the price
\* before pass lo: pass 1 appends the start price, every later pass multiplies
\* the price by exp(shock) and appends it. (The passes are evaluated by halves,
\* first half first, which keeps the evaluation shallow.)
RECURSIVE GbmLoop(_, _, _, _, _)
GbmLoop(dates, lo, hi, price, draw) ==
    IF lo > hi THEN <<>>
    ELSE IF lo = hi
         THEN <<[date |-> dates[lo],
                 close |-> IF lo = 1 THEN price
                           ELSE (price * ExpShock(draw, lo)) \div 100]>>
    ELSE LET mid   == (lo + hi) \div 2
             left  == GbmLoop(dates, lo, mid, price, draw)
             right == GbmLoop(dates, mid + 1, hi, left[Len(left)].close, draw)
         IN  left \o right

simulate_gbm(start, end, draw) ==
    LET dates == daterange(start, end)
    IN  IF dates = <<>> THEN <<>> ELSE GbmLoop(dates, 1, Len(dates), StartPrice, draw)

\* results[sym] = series on an insertion-ordered dict
DictSet(dict, key, value) ==
    IF \E i \in DOMAIN dict : dict[i].key = key
    THEN [i \in DOMAIN dict |-> IF dict[i].key = key THEN [key |-> key, value |-> value]
                                ELSE dict[i]]
    ELSE Append(dict, [key |-> key, value |-> value])

DictKeys(dict) == [i \in DOMAIN dict |-> dict[i].key]

DictHas(dict, key) == \E i \in DOMAIN dict : dict[i].key = key

DictGet(dict, key) == dict[CHOOSE i \in DOMAIN dict : dict[i].key = key].value

\* The try block of get_price_history's loop for one symbol; draw is the
\* random path the fallback produces if it is called. An exception leaves the
\* block with [raised |-> TRUE].
TryFetch(world, sym, start, end, draw) ==
    LET got      == fetch_stooq_history(world, sym)
        filtered == SelectSeq(got.rows, LAMBDA row : start <= row.date /\ row.date <= end)
    IN  IF got.raised THEN [raised |-> TRUE, series |-> <<>>]
        ELSE IF filtered = <<>>
             THEN [raised |-> FALSE, series |-> simulate_gbm(start, end, draw)]
             ELSE [raised |-> FALSE, series |-> filtered]

SeriesFor_NoExcept(world, sym, start, end, draw) == TryFetch(world, sym, start, end, draw)

\* try: ... except Exception: series = simulate_gbm(start, end)
SeriesFor(world, sym, start, end, draw) ==
    LET try == TryFetch(world, sym, start, end, draw)
    IN  IF try.raised THEN [raised |-> FALSE, series |-> simulate_gbm(start, end, draw)]
        ELSE try

\* The loop of get_price_history from the i-th symbol on; draws[i] is the
\* random path available to the i-th iteration. An exception that leaves an
\* iteration leaves the function.
RECURSIVE HistoryLoop(_, _, _, _, _, _, _)
HistoryLoop(world, symbols, i, start, end, draws, results) ==
    IF i > Len(symbols) THEN [raised |-> FALSE, value |-> results]
    ELSE LET s == SeriesFor(world, symbols[i], start, end, draws[i])
         IN  IF s.raised THEN [raised |-> TRUE, value |-> <<>>]
             ELSE HistoryLoop(world, symbols, i + 1, start, end, draws,
                              DictSet(results, symbols[i], s.series))

get_price_history(world, symbols, start, end, draws) ==
    HistoryLoop(world, symbols, 1, start, end, draws, <<>>)

\* start = as_of - timedelta(days=365)
Lookback == 365

\* The loop of get_last_prices over hist.items()
LastOf(hist) ==
    [i \in DOMAIN hist |->
        [key |-> hist[i].key,
         value |-> IF hist[i].value # <<>> THEN hist[i].value[Len(hist[i].value)].close
                   ELSE 0]]

get_last_prices(world, symbols, as_of, draws) ==
    LET hist == get_price_history(world, symbols, as_of - Lookback, as_of, draws)
    IN  IF hist.raised THEN [raised |-> TRUE, value |-> <<>>]
        ELSE [raised |-> FALSE, value |-> LastOf(hist.value)]

\* ------------------------------------------------------------ main.py: valuation

\* date.today()
Today == 738946

\* as_of = as_of or date.today()
AsOf(as_of) == IF as_of = None THEN Today ELSE as_of[1]

\* while cur <= end: res.append(cur); cur = cur + timedelta(days=1)
date_range(start, end) ==
    IF start <= end THEN [k \in 1..(end - start + 1) |-> start + (k - 1)] ELSE <<>>

\* for row in reversed(series): if row["date"] <= d: ...; break
\* The index at which the scan of rows hi, hi-1, ..., lo breaks, 0 if it does
\* not (the upper half is scanned first; evaluated by halves).
RECURSIVE ReversedScan(_, _, _, _)
ReversedScan(series, lo, hi, d) ==
    IF lo > hi THEN 0
    ELSE IF lo = hi THEN (IF series[lo].date <= d THEN lo ELSE 0)
    ELSE LET mid   == (lo + hi) \div 2
             upper == ReversedScan(series, mid + 1, hi, d)
         IN  IF upper # 0 THEN upper ELSE ReversedScan(series, lo, mid, d)

LastPrice_Interpolates(series, d) ==
    LET at == ReversedScan(series, 1, Len(series), d)
    IN  IF at = 0 THEN 0
        ELSE IF at < Len(series) /\ series[at].date < d
             THEN (series[at].close + series[at + 1].close) \div 2
        ELSE series[at].close

\* price = 0.0; then the close of the row the scan breaks at
LastPrice(series, d) ==
    LET at == ReversedScan(series, 1, Len(series), d)
    IN  IF at = 0 THEN 0 ELSE series[at].close

\* history.get(sym, [])
HistoryGet(history, sym) == IF DictHas(history, sym) THEN DictGet(history, sym) ELSE <<>>

\* for sym, shares in positions.items(): total += shares * price  (from the i-th item on)
RECURSIVE TotalLoop(_, _, _, _, _)
TotalLoop(positions, i, history, d, total) ==
    IF i > Len(positions) THEN total
    ELSE TotalLoop(positions, i + 1, history, d,
                   total + positions[i].shares
                             * LastPrice(HistoryGet(history, positions[i].symbol), d))

Symbols(positions) == [i \in DOMAIN positions |-> positions[i].symbol]

portfolio_value_OffByOne(ledger, world, user_id, as_of, order, draws) ==
    LET positions == get_positions(ledger, user_id, order)
        cash      == get_cash_balance(ledger, user_id)
        start     == AsOf(as_of) - Lookback
        history   == get_price_history(world, Symbols(positions), start, AsOf(as_of), draws)
        dates     == date_range(start + 1, AsOf(as_of))
    IN  IF positions = <<>>
        THEN [raised |-> FALSE, value |-> <<[date |-> AsOf(as_of), value |-> cash]>>]
        ELSE IF history.raised THEN [raised |-> TRUE, value |-> <<>>]
        ELSE [raised |-> FALSE,
              value |-> [i \in DOMAIN dates |->
                           [date |-> dates[i],
                            value |-> TotalLoop(positions, 1, history.value, dates[i], cash)]]]

portfolio_value(ledger, world, user_id, as_of, order, draws) ==
    LET positions == get_positions(ledger, user_id, order)
        cash      == get_cash_balance(ledger, user_id)
        start     == AsOf(as_of) - Lookback
        history   == get_price_history(world, Symbols(positions), start, AsOf(as_of), draws)
        dates     == date_range(start, AsOf(as_of))
    IN  IF positions = <<>>
        THEN [raised |-> FALSE, value |-> <<[date |-> AsOf(as_of), value |-> cash]>>]
        ELSE IF history.raised THEN [raised |-> TRUE, value |-> <<>>]
        ELSE [raised |-> FALSE,
              value |-> [i \in DOMAIN dates |->
                           [date |-> dates[i],
                            value |-> TotalLoop(positions, 1, history.value, dates[i], cash)]]]

\* ------------------------------------------------------------ main.py: allocation

\* prices.get(s, 0.0)
PriceGet(prices, s) == IF DictHas(prices, s) THEN DictGet(prices, s) ELSE 0

\* for s in symbols: value = positions[s] * prices.get(s, 0.0); if value > 0: append
RECURSIVE SliceLoop(_, _, _, _)
SliceLoop(positions, i, prices, parts) ==
    IF i > Len(positions) THEN parts
    ELSE LET value == positions[i].shares * PriceGet(prices, positions[i].symbol)
         IN  IF value > 0
             THEN SliceLoop(positions, i + 1, prices,
                            Append(parts, [label |-> Upper(positions[i].symbol),
                                           value |-> value]))
             ELSE SliceLoop(positions, i + 1, prices, parts)

allocation_KeepsNonPositive(ledger, world, user_id, as_of, order, draws) ==
    LET positions == get_positions(ledger, user_id, order)
        cash      == get_cash_balance(ledger, user_id)
        prices    == IF positions # <<>>
                     THEN get_last_prices(world, Symbols(positions), AsOf(as_of), draws)
                     ELSE [raised |-> FALSE, value |-> <<>>]
    IN  IF prices.raised THEN [raised |-> TRUE, value |-> <<>>]
        ELSE [raised |-> FALSE,
              value |-> SliceLoop(positions, 1, prices.value,
                                  IF cash >= 0 THEN <<[label |-> "Cash", value |-> cash]>>
                                  ELSE <<>>)]

allocation(ledger, world, user_id, as_of, order, draws) ==
    LET positions == get_positions(ledger, user_id, order)
        cash      == get_cash_balance(ledger, user_id)
        prices    == IF positions # <<>>
                     THEN get_last_prices(world, Symbols(positions), AsOf(as_of), draws)
                     ELSE [raised |-> FALSE, value |-> <<>>]
    IN  IF prices.raised THEN [raised |-> TRUE, value |-> <<>>]
        ELSE [raised |-> FALSE,
              value |-> SliceLoop(positions, 1, prices.value,
                                  IF cash > 0 THEN <<[label |-> "Cash", value |-> cash]>>
                                  ELSE <<>>)]

\* ------------------------------------------------------------ main.py: monte_carlo

\* Floats are fixed-point numbers with four decimals: Scale stands for 1.0.
\* Money keeps its unit, so a product of a value and a factor is rounded down
\* to the unit.
Scale == 10000

\* x * y in fixed point: floor(x * y / Scale), computed on the quotient and the
\* remainder of x by Scale
Mul(x, y) == (x \div Scale) * y + (((x % Scale) * y) \div Scale)

Max(a, b) == IF a >= b THEN a ELSE b

\* dt = 1.0 / 12.0
Dt == Scale \div 12

\* math.sqrt(dt)
SqrtDt == CHOOSE r \in 0..Scale : r * r <= Dt * Scale /\ Dt * Scale < (r + 1) * (r + 1)

\* math.exp(x): the exponential series up to the third power
Exp(x) == Scale + x + (Mul(x, x) \div 2) + (Mul(Mul(x, x), x) \div 6)

\* The generator behind random.gauss: a state that every draw advances, and
\* the standard normal deviate drawn from a state, in whole deviations -2..2.
RngModulus == 16

NextRng(rng) == (5 * rng + 3) % RngModulus

Normal(rng) == (rng % 5) - 2

gauss_IgnoresSigma(means, stds, rng) == means + Normal(rng) * (Scale \div 10)

\* random.gauss(mu, sigma) = mu + z * sigma
gauss(means, stds, rng) == means + Normal(rng) * stds

\* for _ in range(n): shock = gauss(...); value = value * exp(shock); vals.append(value)
RECURSIVE PathLoop(_, _, _, _, _, _)
PathLoop(left, value, vals, means, stds, rng) ==
    IF left <= 0 THEN [vals |-> vals, rng |-> rng]
    ELSE LET shock == gauss(means, stds, rng)
             next  == Mul(value, Exp(shock))
         IN  PathLoop(left - 1, next, Append(vals, next), means, stds, NextRng(rng))

simulate_path_SkipsStart(initial, n, means, stds, rng) ==
    PathLoop(n, initial, <<>>, means, stds, rng)

\* simulate_path(): vals = [value], then one value per period
simulate_path(initial, n, means, stds, rng) ==
    PathLoop(n, initial, <<initial>>, means, stds, rng)

\* all_vals = [simulate_path() for _ in range(sims)]
RECURSIVE PathsLoop(_, _, _, _, _, _, _)
PathsLoop(left, initial, n, means, stds, rng, all_vals) ==
    IF left <= 0 THEN all_vals
    ELSE LET p == simulate_path(initial, n, means, stds, rng)
         IN  PathsLoop(left - 1, initial, n, means, stds, p.rng, Append(all_vals, p.vals))

\* zip(*all_vals): one column per index that every path has; none for no path
Zip(all_vals) ==
    IF all_vals = <<>> THEN <<>>
    ELSE LET shortest == CHOOSE m \in {Len(all_vals[s]) : s \in DOMAIN all_vals} :
                            \A s \in DOMAIN all_vals : m <= Len(all_vals[s])
         IN  [t \in 1..shortest |-> [s \in DOMAIN all_vals |-> all_vals[s][t]]]

\* sorted(col): ascending, equal values in their order of arrival
RECURSIVE InsertAscending(_, _)
InsertAscending(done, v) ==
    IF done = <<>> THEN <<v>>
    ELSE IF done[Len(done)] <= v THEN Append(done, v)
    ELSE Append(InsertAscending(SubSeq(done, 1, Len(done) - 1), v), done[Len(done)])

RECURSIVE SortLoop(_, _, _)
SortLoop(col, i, done) ==
    IF i > Len(col) THEN done ELSE SortLoop(col, i + 1, InsertAscending(done, col[i]))

sorted_AsGiven(col) == col

sorted(col) == SortLoop(col, 1, <<>>)

\* sorted(col)[len(col)//2]
Median(col) == sorted(col)[(Len(col) \div 2) + 1]

\* sorted(col)[max(0, int(0.10 * (len(col)-1)))]; the float product truncates
\* to the same integer as the exact tenth for every len(col) up to 200000
P10(col) == sorted(col)[Max(0, (10 * (Len(col) - 1)) \div 100) + 1]

P90_OfLen(col) == sorted(col)[((90 * Len(col)) \div 100) + 1]

\* sorted(col)[int(0.90 * (len(col)-1))]
P90(col) == sorted(col)[((90 * (Len(col) - 1)) \div 100) + 1]

\* for s, sh in positions.items(): total += sh * last_prices.get(s, 0.0)
RECURSIVE WorthLoop(_, _, _, _)
WorthLoop(positions, i, last_prices, total) ==
    IF i > Len(positions) THEN total
    ELSE WorthLoop(positions, i + 1, last_prices,
                   total + positions[i].shares * PriceGet(last_prices, positions[i].symbol))

MonteCarloParams(u, initial_value, mu, sigma, periods, simulations) ==
    [user_id |-> u, initial_value |-> initial_value, expected_return |-> mu,
     volatility |-> sigma, periods |-> periods, simulations |-> simulations]

\* POST /api/montecarlo. Next to the returned bands the result keeps the
\* handler's locals initial and all_vals.
monte_carlo(ledger, world, params, order, draws, rng) ==
    LET as_of       == Today
        positions   == get_positions(ledger, params.user_id, order)
        cash        == get_cash_balance(ledger, params.user_id)
        last_prices == IF positions # <<>>
                       THEN get_last_prices(world, Symbols(positions), as_of, draws)
                       ELSE [raised |-> FALSE, value |-> <<>>]
    IN  IF last_prices.raised
        THEN [raised |-> TRUE, initial |-> 0, all_vals |-> <<>>,
              value |-> [median |-> <<>>, p10 |-> <<>>, p90 |-> <<>>]]
        ELSE LET total    == WorthLoop(positions, 1, last_prices.value, cash)
                 initial  == IF params.initial_value # None THEN params.initial_value[1]
                             ELSE total
                 n        == params.periods
                 sims     == params.simulations
                 mu       == params.expected_return
                 sigma    == params.volatility
                 means    == Mul(mu - (Mul(sigma, sigma) \div 2), Dt)
                 stds     == Mul(sigma, SqrtDt)
                 all_vals == PathsLoop(sims, initial, n, means, stds, rng, <<>>)
                 cols     == Zip(all_vals)
             IN  [raised |-> FALSE, initial |-> initial, all_vals |-> all_vals,
                  value |-> [median |-> [t \in DOMAIN cols |-> Median(cols[t])],
                             p10    |-> [t \in DOMAIN cols |-> P10(cols[t])],
                             p90    |-> [t \in DOMAIN cols |-> P90(cols[t])]]]

\* ------------------------------------------------------------ the price provider

Row(d, c) == Line(6, Some(d), Some(c))

\* Response bodies: rows out of order with malformed lines between them; only a
\* row before the window; the header alone; only malformed rows; no header.
BodyMixed ==
    <<HeaderLine, Row(D3, 17000), Row(D1 + 2, 15500), Line(3, None, None),
      Row(D1, 15000), Row(D0, 14000), Line(6, None, Some(1)), Line(6, Some(D1 + 1), None)>>

BodyOld == <<HeaderLine, Row(D0, 14000)>>

BodyUs == <<HeaderLine, Row(D1, 20000), Row(D1 + 1, 20100)>>

BodyMsft == <<HeaderLine, Row(D1 + 1, 40000), Row(D1 + 3, 41000)>>

BodyBadRows == <<HeaderLine, Line(2, None, None), Line(6, None, None)>>

BodyNoData == <<Line(1, None, None)>>

\* What the external source answers for each candidate.
PriceWorlds ==
    {[c \in {"aapl", "aapl.us", "msft", "msft.us"} |->
        CASE c = "aapl" -> a [] c = "aapl.us" -> b [] c = "msft" -> m
          [] c = "msft.us" -> Http(200, FALSE, BodyNoData)] :
     a \in {Http(200, TRUE, BodyMixed), Http(200, TRUE, BodyOld), Http(200, TRUE, <<HeaderLine>>),
            Http(200, TRUE, BodyBadRows), Http(200, FALSE, BodyNoData),
            Http(404, TRUE, BodyMixed), Raises},
     b \in {Http(200, TRUE, BodyUs), Http(500, FALSE, <<>>), Raises},
     m \in {Http(200, TRUE, BodyMsft), Raises}}

PriceRequests == {<<>>, <<"aapl">>, <<"msft", "AAPL">>, <<"aapl", "msft", "aapl">>}

PriceWindows == {<<D1, D1>>, <<D1, D1 + 3>>, <<D1 - 1, D2>>}

InitPrice == txns = <<>> /\ stooq \in PriceWorlds /\ resp = NoResp

GetPriceHistory(symbols, start, end) ==
    /\ Idle
    /\ \E draws \in [DOMAIN symbols -> GbmDraws] :
          resp' = [op |-> "get_price_history", symbols |-> symbols, start |-> start,
                   end |-> end,
                   raised |-> get_price_history(stooq, symbols, start, end, draws).raised,
                   value |-> get_price_history(stooq, symbols, start, end, draws).value]
    /\ UNCHANGED <<txns, stooq>>

NextPrice ==
    \/ \E symbols \in PriceRequests, w \in PriceWindows : GetPriceHistory(symbols, w[1], w[2])
    \/ Reply

SpecPrice == InitPrice /\ [][NextPrice]_vars


\* ------------------------------------------------------------ the valuation service

MaxValueTxns == 2

ValueInputs ==
    {Payload(1, D1, "income", 10000, None, None),
     Payload(1, D1, "trade", 150000, Some("aapl"), Some(5)),
     Payload(1, D2, "trade", 150000, Some("aapl"), Some(-5)),
     Payload(1, D3, "trade", 40000, Some("msft"), Some(-3))}

\* The source has rows for aapl; it has rows for msft or answers 404.
ValueWorlds ==
    {[c \in {"aapl", "aapl.us", "msft", "msft.us"} |->
        CASE c = "aapl" -> Http(200, TRUE, BodyMixed) [] c = "aapl.us" -> Raises
          [] c = "msft" -> m [] c = "msft.us" -> Http(200, FALSE, BodyNoData)] :
     m \in {Http(200, TRUE, BodyMsft), Http(404, FALSE, <<>>)}}

\* The as_of query parameter: absent, or 2024-01-20
AsOfInputs == {None, Some(D2)}

InitValue == txns = <<>> /\ stooq \in ValueWorlds /\ resp = NoResp

AddValueTransaction(p) ==
    /\ Idle
    /\ Len(txns) < MaxValueTxns
    /\ txns' = create_transaction(txns, p)
    /\ resp' = [op |-> "add_transaction", user_id |-> p.user_id,
                value |-> create_transaction(txns, p)[Len(txns) + 1]]
    /\ UNCHANGED stooq

\* GET /api/portfolio/value. The response records, with the result, the row
\* order of the positions query and the random paths that were available.
PortfolioValue(u, as_of) ==
    /\ Idle
    /\ \E order \in RowOrders(txns, u) :
          \E draws \in [1..Len(get_positions(txns, u, order)) -> GbmDraws] :
             LET r == portfolio_value(txns, stooq, u, as_of, order, draws)
             IN  resp' = [op |-> "portfolio_value", user_id |-> u, as_of |-> AsOf(as_of),
                          order |-> order, draws |-> draws,
                          raised |-> r.raised, value |-> r.value]
    /\ UNCHANGED <<txns, stooq>>

\* GET /api/allocation
Allocation(u, as_of) ==
    /\ Idle
    /\ \E order \in RowOrders(txns, u) :
          \E draws \in [1..Len(get_positions(txns, u, order)) -> GbmDraws] :
             LET r == allocation(txns, stooq, u, as_of, order, draws)
             IN  resp' = [op |-> "allocation", user_id |-> u, as_of |-> AsOf(as_of),
                          order |-> order, draws |-> draws,
                          raised |-> r.raised, value |-> r.value]
    /\ UNCHANGED <<txns, stooq>>

NextValue ==
    \/ \E p \in ValueInputs : AddValueTransaction(p)
    \/ \E u \in Users, as_of \in AsOfInputs : PortfolioValue(u, as_of)
    \/ \E u \in Users, as_of \in AsOfInputs : Allocation(u, as_of)
    \/ Reply

SpecValue == InitValue /\ [][NextValue]_vars

\* ------------------------------------------------------------ the projection service

MaxPeriods == 2

MaxSims == 11

MCInputs ==
    {Payload(1, D1, "income", 10000, None, None),
     Payload(1, D1, "trade", 150000, Some("aapl"), Some(5))}

\* The source has rows for aapl, or answers 404 to both candidates.
MCWorlds ==
    {[c \in {"aapl", "aapl.us"} |-> a] : a \in {Http(200, TRUE, BodyMixed), Http(404, FALSE, <<>>)}}

\* initial_value: absent, or 1000.00
InitialInputs == {None, Some(100000)}

\* (expected_return, volatility): the defaults 0.07 and 0.15, and no volatility
\* with and without drift
RateInputs == {<<700, 1500>>, <<700, 0>>, <<0, 0>>}

\* The state of the random generator when the request arrives
RngSeeds == {0, 7}

\* The request bodies of POST /api/montecarlo
MCRequests ==
    {MonteCarloParams(u, iv, rate[1], rate[2], periods, simulations) :
        u \in Users, iv \in InitialInputs, rate \in RateInputs,
        periods \in 0..MaxPeriods, simulations \in 0..MaxSims}

InitMC == txns = <<>> /\ stooq \in MCWorlds /\ resp = NoResp

AddMCTransaction(p) ==
    /\ Idle
    /\ Len(txns) < MaxValueTxns
    /\ txns' = create_transaction(txns, p)
    /\ resp' = [op |-> "add_transaction", user_id |-> p.user_id,
                value |-> create_transaction(txns, p)[Len(txns) + 1]]
    /\ UNCHANGED stooq

\* POST /api/montecarlo. The response records, with the result, the row order
\* of the positions query, the fallback paths and the generator state.
MonteCarlo(params) ==
    /\ Idle
    /\ \E order \in RowOrders(txns, params.user_id), rng \in RngSeeds :
          \E draws \in [1..Len(get_positions(txns, params.user_id, order)) -> GbmDraws] :
             LET r == monte_carlo(txns, stooq, params, order, draws, rng)
             IN  resp' = [op |-> "monte_carlo", params |-> params, order |-> order,
                          draws |-> draws, rng |-> rng, raised |-> r.raised,
                          initial |-> r.initial, all_vals |-> r.all_vals, value |-> r.value]
    /\ UNCHANGED <<txns, stooq>>

NextMC ==
    \/ \E p \in MCInputs : AddMCTransaction(p)
    \/ \E params \in MCRequests : MonteCarlo(params)
    \/ Reply

SpecMC == InitMC /\ [][NextMC]_vars

\* ------------------------------------------------------------ the fallback generator

MaxGbmDays == 7

\* Windows of up to MaxGbmDays days after 2024-01-05, in either order, and the
\* lookback window that ends today.
GbmWindows ==
    {<<start, end>> : start \in D1..(D1 + MaxGbmDays), end \in D1..(D1 + MaxGbmDays)}
        \cup {<<Today - Lookback, Today>>}

InitGbm == txns = <<>> /\ stooq = NoStooq /\ resp = NoResp

\* A call of simulate_gbm(start, end) with its default parameters
SimulateGbm(start, end, draw) ==
    /\ Idle
    /\ resp' = [op |-> "simulate_gbm", start |-> start, end |-> end, draw |-> draw,
                value |-> simulate_gbm(start, end, draw)]
    /\ UNCHANGED <<txns, stooq>>

NextGbm ==
    \/ \E w \in GbmWindows, draw \in GbmDraws : SimulateGbm(w[1], w[2], draw)
    \/ Reply

SpecGbm == InitGbm /\ [][NextGbm]_vars

\* ------------------------------------------------------------ two users on one ledger

\* Transactions of user 1 and of user 2 in the same month and the same symbol
IsoInputs ==
    {Payload(1, D1, "income", 10000, None, None),
     Payload(1, D1, "trade", 150000, Some("aapl"), Some(5)),
     Payload(2, D1, "expense", 300, None, None),
     Payload(2, D2, "trade", 60000, Some("aapl"), Some(2))}

\* The source has rows for aapl.
IsoWorlds == {[c \in {"aapl", "aapl.us"} |-> Http(200, TRUE, BodyMixed)]}

\* Monte Carlo requests of either user: the default rates, one period, two paths
IsoRequests ==
    {MonteCarloParams(u, iv, 700, 1500, 1, 2) : u \in Users, iv \in InitialInputs}

InitIso == txns = <<>> /\ stooq \in IsoWorlds /\ resp = NoResp

AddIsoTransaction(p) ==
    /\ Idle
    /\ Len(txns) < MaxTxns
    /\ txns' = create_transaction(txns, p)
    /\ resp' = [op |-> "add_transaction", user_id |-> p.user_id,
                value |-> create_transaction(txns, p)[Len(txns) + 1]]
    /\ UNCHANGED stooq

\* Every entry point, called for either user
NextIso ==
    \/ \E p \in IsoInputs : AddIsoTransaction(p)
    \/ \E u \in Users : GetCashBalance(u)
    \/ \E u \in Users : GetPositions(u)
    \/ \E u \in Users : Cashflow(u)
    \/ \E u \in Users : PortfolioValue(u, None)
    \/ \E u \in Users : Allocation(u, None)
    \/ \E params \in IsoRequests : MonteCarlo(params)
    \/ Reply

SpecIso == InitIso /\ [][NextIso]_vars

\* ------------------------------------------------------------ price provider properties

\* A candidate's answer is usable: success, the header, and at least one
\* well-formed row after the first line.
WellFormed(l) == l.nparts >= 5 /\ l.date # None /\ l.close # None

Usable(c) ==
    /\ stooq[c].kind = "http" /\ stooq[c].status = 200 /\ stooq[c].has_header
    /\ \E i \in 2..Len(stooq[c].lines) : WellFormed(stooq[c].lines[i])

\* The rows of candidate c that lie in [start, end], as a set.
RowsInWindow(c, start, end) ==
    {[date |-> stooq[c].lines[i].date[1], close |-> stooq[c].lines[i].close[1]] :
        i \in {j \in 2..Len(stooq[c].lines) :
                 /\ WellFormed(stooq[c].lines[j])
                 /\ start <= stooq[c].lines[j].date[1]
                 /\ stooq[c].lines[j].date[1] <= end}}

\* The real rows the external source has for sym in [start, end]: none when a
\* request raises or no candidate's answer is usable.
RealRows(sym, start, end) ==
    LET c1 == Lower(sym)
        c2 == Lower(sym) \o ".us"
    IN  IF stooq[c1].kind = "raise" THEN {}
        ELSE IF Usable(c1) THEN RowsInWindow(c1, start, end)
        ELSE IF stooq[c2].kind = "raise" THEN {}
        ELSE IF Usable(c2) THEN RowsInWindow(c2, start, end)
        ELSE {}

\* A synthetic fallback series over [start, end]: one point per day, the first
\* at the reference price.
IsFallback(series, start, end) ==
    /\ Len(series) = end - start + 1
    /\ \A i \in DOMAIN series : series[i].date = start + i - 1
    /\ series[1].close = StartPrice

\* C10: get_price_history with start <= end does not raise and returns one entry
\* per requested symbol, each a non-empty date-ascending series within
\* [start, end]; a symbol whose fetch raises, fails or has no row in the window
\* gets the fallback series, any other symbol gets its real rows, and each
\* symbol's series is one it gets when requested alone.
C10_PriceHistory ==
    (resp.op = "get_price_history" /\ resp.start <= resp.end) =>
        /\ ~resp.raised
        /\ Range(DictKeys(resp.value)) = Range(resp.symbols)
        /\ \A i, j \in DOMAIN resp.value : resp.value[i].key = resp.value[j].key => i = j
        /\ \A i \in DOMAIN resp.value :
              LET sym    == resp.value[i].key
                  series == resp.value[i].value
              IN  /\ series # <<>>
                  /\ \A k \in DOMAIN series :
                        /\ resp.start <= series[k].date /\ series[k].date <= resp.end
                        /\ k > 1 => series[k - 1].date <= series[k].date
                  /\ IF RealRows(sym, resp.start, resp.end) = {}
                     THEN IsFallback(series, resp.start, resp.end)
                     ELSE Range(series) = RealRows(sym, resp.start, resp.end)
                  /\ \E d \in GbmDraws :
                        series = get_price_history(stooq, <<sym>>, resp.start, resp.end,
                                                   <<d>>).value[1].value

\* A request in which one symbol's fetch raised and got the fallback while
\* another symbol, requested after it, got its real rows.
C10_Witness ==
    /\ resp.op = "get_price_history"
    /\ ~resp.raised
    /\ Len(resp.value) = 2
    /\ stooq[Lower(resp.value[1].key)].kind = "raise"
    /\ IsFallback(resp.value[1].value, resp.start, resp.end)
    /\ RealRows(resp.value[2].key, resp.start, resp.end) # {}
    /\ Range(resp.value[2].value) = RealRows(resp.value[2].key, resp.start, resp.end)


\* ------------------------------------------------------------ valuation properties

\* The user's cash, as an order-free sum over the ledger.
CashOf(u) == SumFn(RowsOf(u, {"income"}), Amounts) - SumFn(RowsOf(u, {"expense"}), Amounts)

\* The user holds positions: some trade of the user has a non-empty symbol.
HasPositions(u) == TradedSymbols(u) \ {""} # {}

\* C3: portfolio_value returns the single point (as_of, cash) when the user has
\* no positions, and otherwise 366 points on consecutive days from
\* as_of - 365 days to as_of, net-zero holdings included.
C3_SeriesShape ==
    resp.op = "portfolio_value" =>
        /\ ~resp.raised
        /\ IF ~HasPositions(resp.user_id)
           THEN resp.value = <<[date |-> resp.as_of, value |-> CashOf(resp.user_id)]>>
           ELSE /\ Len(resp.value) = 366
                /\ resp.value[1].date = resp.as_of - 365
                /\ resp.value[366].date = resp.as_of
                /\ \A i \in 2..366 : resp.value[i].date = resp.value[i - 1].date + 1

\* A 366-point series for a user whose only held symbol has net-zero shares.
C3_Witness ==
    /\ resp.op = "portfolio_value"
    /\ Len(resp.value) = 366
    /\ get_positions(txns, resp.user_id, resp.order) = <<[symbol |-> "aapl", shares |-> 0]>>

\* A single point for a user with cash and no positions.
C3_WitnessSinglePoint ==
    /\ resp.op = "portfolio_value"
    /\ Len(resp.value) = 1
    /\ resp.value[1].value # 0

\* The close of the entry with the greatest date <= d in a date-ascending
\* series: the entries dated <= d are a prefix of it. 0 when there is none.
PriceAt(series, d) ==
    LET n == Cardinality({j \in DOMAIN series : series[j].date <= d})
    IN  IF n = 0 THEN 0 ELSE series[n].close

Ascending(series) == \A j \in 2..Len(series) : series[j - 1].date <= series[j].date

\* C4: for a user with positions, every point (d, value) of portfolio_value has
\* value = cash + the sum over the held symbols of shares x the close of the
\* symbol's latest entry dated <= d, 0 when there is none; no gap is interpolated.
C4_PointValue ==
    (resp.op = "portfolio_value" /\ HasPositions(resp.user_id)) =>
        LET pos  == get_positions(txns, resp.user_id, resp.order)
            hist == get_price_history(stooq, Symbols(pos), resp.as_of - 365, resp.as_of,
                                      resp.draws).value
        IN  /\ \A k \in DOMAIN pos : Ascending(DictGet(hist, pos[k].symbol))
            /\ \A i \in DOMAIN resp.value :
                  resp.value[i].value =
                      CashOf(resp.user_id)
                      + SumFn(DOMAIN pos,
                              [k \in DOMAIN pos |->
                                  pos[k].shares * PriceAt(DictGet(hist, pos[k].symbol),
                                                          resp.value[i].date)])

\* msft is held short with real rows (D1+1, 40000) and (D1+3, 41000): the point
\* of D1+2 uses 40000, and the point of D1, before the first row, uses 0.
C4_Witness ==
    /\ resp.op = "portfolio_value"
    /\ get_positions(txns, resp.user_id, resp.order) = <<[symbol |-> "msft", shares |-> -3]>>
    /\ stooq["msft"].kind = "http" /\ stooq["msft"].status = 200
    /\ \E i, j \in DOMAIN resp.value :
          /\ resp.value[i].date = D1 + 2
          /\ resp.value[i].value = CashOf(resp.user_id) - 3 * 40000
          /\ resp.value[j].date = D1
          /\ resp.value[j].value = CashOf(resp.user_id)

\* The last known price of a held symbol: the close of the last entry of the
\* series the price provider returns for the lookback window.
LastKnown(hist, sym) == DictGet(hist, sym)[Len(DictGet(hist, sym))].close

\* C6: allocation has a cash slice iff cash > 0, first and valued at the cash
\* balance; the slices after it are those of the held symbols with
\* shares x last known price > 0, in position-map order, valued at that
\* product; every slice value is strictly positive.
C6_Allocation ==
    resp.op = "allocation" =>
        LET pos   == get_positions(txns, resp.user_id, resp.order)
            hist  == get_price_history(stooq, Symbols(pos), resp.as_of - 365, resp.as_of,
                                       resp.draws).value
            cash  == CashOf(resp.user_id)
            worth == [k \in DOMAIN pos |-> pos[k].shares * LastKnown(hist, pos[k].symbol)]
            kept  == SelectSeq([k \in DOMAIN pos |-> k], LAMBDA k : worth[k] > 0)
            rest  == IF cash > 0 THEN Tail(resp.value) ELSE resp.value
        IN  /\ ~resp.raised
            /\ cash > 0 => (resp.value # <<>> /\ resp.value[1] = [label |-> "Cash", value |-> cash])
            /\ cash <= 0 => \A i \in DOMAIN resp.value : resp.value[i].label # "Cash"
            /\ rest = [i \in DOMAIN kept |->
                         [label |-> Upper(pos[kept[i]].symbol), value |-> worth[kept[i]]]]
            /\ \A i \in DOMAIN resp.value : resp.value[i].value > 0

\* Cash first, then the slice of a symbol held long.
C6_Witness ==
    /\ resp.op = "allocation"
    /\ Len(resp.value) = 2
    /\ resp.value[1].label = "Cash"
    /\ resp.value[2].label = "AAPL"

\* No cash slice for a zero balance and no slice for a symbol held short, next
\* to the slice of a symbol held long.
C6_WitnessExcluded ==
    /\ resp.op = "allocation"
    /\ Len(get_positions(txns, resp.user_id, resp.order)) = 2
    /\ Len(resp.value) = 1
    /\ resp.value[1].label = "AAPL"

\* ------------------------------------------------------------ projection properties

\* What the user owns today: cash plus shares x last known price over the
\* position map, the prices being those of the lookback window ending today.
NetWorthToday(u, order, draws) ==
    LET pos  == get_positions(txns, u, order)
        hist == get_price_history(stooq, Symbols(pos), Today - 365, Today, draws).value
    IN  CashOf(u) + SumFn(DOMAIN pos, [k \in DOMAIN pos |->
                                          pos[k].shares * LastKnown(hist, pos[k].symbol)])

\* C7: for periods >= 1 and simulations >= 1, median, p10 and p90 all have
\* length periods + 1 and their first element is the initial value: the
\* supplied initial_value, or cash + sum of shares x last price when none is
\* supplied.
C7_BandShape ==
    (resp.op = "monte_carlo" /\ resp.params.periods >= 1 /\ resp.params.simulations >= 1) =>
        LET initial == IF resp.params.initial_value # None THEN resp.params.initial_value[1]
                       ELSE NetWorthToday(resp.params.user_id, resp.order, resp.draws)
        IN  /\ ~resp.raised
            /\ Len(resp.value.median) = resp.params.periods + 1
            /\ Len(resp.value.p10) = resp.params.periods + 1
            /\ Len(resp.value.p90) = resp.params.periods + 1
            /\ resp.value.median[1] = initial
            /\ resp.value.p10[1] = initial
            /\ resp.value.p90[1] = initial

\* No initial_value supplied: the bands of two periods start at the income of
\* 100.00 plus five shares at the last close of 170.00.
C7_Witness ==
    /\ resp.op = "monte_carlo"
    /\ resp.params.initial_value = None
    /\ resp.params.periods = 2
    /\ resp.params.simulations >= 2
    /\ Len(resp.value.median) = 3
    /\ resp.value.median[1] = 10000 + 5 * 17000

\* v is the element at 0-based index k of col sorted ascending: it occurs in
\* col, at most k elements are smaller and more than k are not larger.
IsOrderStatistic(col, k, v) ==
    /\ v \in Range(col)
    /\ Cardinality({i \in DOMAIN col : col[i] < v}) <= k
    /\ k < Cardinality({i \in DOMAIN col : col[i] <= v})

\* C8: at every time index, with n = simulations >= 1 path values sorted
\* ascending, median is the element at index floor(n/2), p10 the element at
\* index floor(0.10 (n-1)) and p90 the element at index floor(0.90 (n-1));
\* each is a path value and every index lies in 0..n-1.
C8_OrderStatistics ==
    (resp.op = "monte_carlo" /\ resp.params.simulations >= 1) =>
        LET n == resp.params.simulations
            T == IF resp.params.periods >= 0 THEN resp.params.periods + 1 ELSE 1
            col(t) == [s \in 1..n |-> resp.all_vals[s][t]]
        IN  /\ Len(resp.all_vals) = n
            /\ {n \div 2, (n - 1) \div 10, (9 * (n - 1)) \div 10} \subseteq 0..(n - 1)
            /\ DOMAIN resp.value.median = 1..T
            /\ DOMAIN resp.value.p10 = 1..T
            /\ DOMAIN resp.value.p90 = 1..T
            /\ \A t \in 1..T :
                  /\ IsOrderStatistic(col(t), n \div 2, resp.value.median[t])
                  /\ IsOrderStatistic(col(t), (n - 1) \div 10, resp.value.p10[t])
                  /\ IsOrderStatistic(col(t), (9 * (n - 1)) \div 10, resp.value.p90[t])

\* Eleven paths: at some time index p10 is above the smallest path value, p90
\* below the largest, and the median strictly between p10 and p90.
C8_Witness ==
    /\ resp.op = "monte_carlo"
    /\ resp.params.simulations = 11
    /\ \E t \in DOMAIN resp.value.median :
          /\ \E s \in DOMAIN resp.all_vals : resp.all_vals[s][t] < resp.value.p10[t]
          /\ resp.value.p10[t] < resp.value.median[t]
          /\ resp.value.median[t] < resp.value.p90[t]
          /\ \E s \in DOMAIN resp.all_vals : resp.value.p90[t] < resp.all_vals[s][t]

\* C9: with volatility 0 every path is the same sequence, each step
\* multiplying the value by exp(mu dt) whatever the random draws, so median,
\* p10 and p90 coincide with that path at every time index.
C9_ZeroVolatility ==
    (resp.op = "monte_carlo" /\ resp.params.volatility = 0 /\ resp.params.simulations >= 1) =>
        LET path   == resp.all_vals[1]
            factor == Exp(Mul(resp.params.expected_return, Dt))
        IN  /\ \A s \in DOMAIN resp.all_vals : resp.all_vals[s] = path
            /\ \A t \in 1..(Len(path) - 1) : path[t + 1] = Mul(path[t], factor)
            /\ resp.value.median = path
            /\ resp.value.p10 = path
            /\ resp.value.p90 = path

\* Three or more paths of two periods with drift and no volatility: the bands
\* grow along the one path.
C9_Witness ==
    /\ resp.op = "monte_carlo"
    /\ resp.params.volatility = 0
    /\ resp.params.expected_return > 0
    /\ resp.params.simulations >= 3
    /\ resp.params.periods = 2
    /\ resp.value.median[1] > 0
    /\ resp.value.median[3] > resp.value.median[2]
    /\ resp.value.median[2] > resp.value.median[1]

\* ------------------------------------------------------------ fallback generator properties

\* C11: simulate_gbm(start, end) returns one point for every calendar day of
\* [start, end], in ascending date order with no day repeated or skipped, the
\* first dated start with the reference price as close; exactly one point
\* dated start when start = end, and the empty series when start > end.
C11_GbmSeries ==
    resp.op = "simulate_gbm" =>
        LET series == resp.value
        IN  /\ resp.start > resp.end => series = <<>>
            /\ resp.start = resp.end =>
                  (Len(series) = 1 /\ series[1].date = resp.start)
            /\ resp.start <= resp.end =>
                  /\ \A d \in resp.start..resp.end :
                        Cardinality({k \in DOMAIN series : series[k].date = d}) = 1
                  /\ \A k \in DOMAIN series : series[k].date \in resp.start..resp.end
                  /\ \A k \in 1..(Len(series) - 1) : series[k + 1].date = series[k].date + 1
                  /\ series[1].date = resp.start
                  /\ series[1].close = StartPrice

\* A window of several days: the points run from start to end and the price
\* has moved off the reference price.
C11_Witness ==
    /\ resp.op = "simulate_gbm"
    /\ resp.end >= resp.start + 3
    /\ resp.value[1].close = StartPrice
    /\ resp.value[2].close # StartPrice
    /\ resp.value[Len(resp.value)].date = resp.end

\* The one-day window
C11_WitnessOneDay ==
    /\ resp.op = "simulate_gbm"
    /\ resp.start = resp.end
    /\ Len(resp.value) = 1

\* The window that ends before it starts
C11_WitnessEmpty ==
    /\ resp.op = "simulate_gbm"
    /\ resp.start > resp.end
    /\ resp.value = <<>>

\* ------------------------------------------------------------ isolation properties

PayloadOf(t) == Payload(t.user_id, t.date, t.type, t.amount, t.asset_symbol, t.shares)

\* The ledger as it would be if only user u's transactions had been recorded:
\* u's payloads, created in the same order on an empty ledger.
RECURSIVE ReplayFor(_, _, _, _)
ReplayFor(ledger, i, u, alone) ==
    IF i > Len(ledger) THEN alone
    ELSE IF ledger[i].user_id = u
         THEN ReplayFor(ledger, i + 1, u, create_transaction(alone, PayloadOf(ledger[i])))
         ELSE ReplayFor(ledger, i + 1, u, alone)

OnlyUser(ledger, u) == ReplayFor(ledger, 1, u, <<>>)

AnalyticsOps ==
    {"get_cash_balance", "get_positions", "cashflow", "portfolio_value", "allocation",
     "monte_carlo"}

\* The response r, given on the ledger, is what the same call answers on the
\* transactions of r's user alone.
Independent(ledger, r) ==
    /\ r.op = "get_cash_balance" =>
          r.value = get_cash_balance(OnlyUser(ledger, r.user_id), r.user_id)
    /\ r.op = "get_positions" =>
          \E order \in RowOrders(OnlyUser(ledger, r.user_id), r.user_id) :
             r.value = get_positions(OnlyUser(ledger, r.user_id), r.user_id, order)
    /\ r.op = "cashflow" =>
          r.value = cashflow(OnlyUser(ledger, r.user_id), r.user_id)

\* C12: for any interleaving of create_transaction by two users, the cash
\* balance, positions and cashflow of one user are what they would be had the
\* other user's transactions never been recorded, and no analytics entry point
\* (positions, cash balance, value series, cashflow, allocation, Monte Carlo)
\* adds, removes or changes a transaction of the ledger.
C12_Isolation ==
    [][/\ Independent(txns', resp')
       /\ resp'.op \in AnalyticsOps => txns' = txns]_vars

\* User 1 is answered about its five aapl shares while the ledger also holds
\* user 2's trade in aapl.
C12_Witness ==
    /\ resp.op = "get_positions"
    /\ resp.user_id = 1
    /\ \E i, j \in DOMAIN txns :
          /\ i < j
          /\ txns[i].user_id = 2 /\ txns[i].asset_symbol = Some("aapl")
          /\ txns[j].user_id = 1 /\ txns[j].asset_symbol = Some("aapl")
    /\ Len(resp.value) = 1
    /\ resp.value[1].shares = 5

\* User 1 is answered its cash balance while the ledger holds user 2's expense.
C12_WitnessCash ==
    /\ resp.op = "get_cash_balance"
    /\ resp.user_id = 1
    /\ resp.value = 10000
    /\ \E i \in DOMAIN txns : txns[i].user_id = 2 /\ txns[i].type = "expense"

\* A Monte Carlo run answered on a ledger of both users
C12_WitnessMonteCarlo ==
    /\ resp.op = "monte_carlo"
    /\ {txns[i].user_id : i \in DOMAIN txns} = {1, 2}

\* ------------------------------------------------------------ band order properties

\* The band is ordered at every time index.
BandOrdered(value) ==
    \A t \in DOMAIN value.median :
        value.p10[t] <= value.median[t] /\ value.median[t] <= value.p90[t]

\* C13 as stated: for every simulations >= 1 and every time index t,
\* p10[t] <= median[t] <= p90[t].
C13_Original ==
    (resp.op = "monte_carlo" /\ resp.params.simulations >= 1) => BandOrdered(resp.value)

\* C13: for every simulations >= 1 and every time index t, p10[t] <= median[t];
\* median[t] <= p90[t] for every number of simulations other than 2, and with
\* exactly 2 simulations p90[t] <= median[t]: the median is then the element
\* at index 1 of the sorted pair and p90, like p10, the element at index 0.
C13_BandOrder ==
    (resp.op = "monte_carlo" /\ resp.params.simulations >= 1) =>
        LET n == resp.params.simulations
        IN  /\ (n - 1) \div 10 <= n \div 2
            /\ n # 2 => n \div 2 <= (9 * (n - 1)) \div 10
            /\ n = 2 => (9 * (n - 1)) \div 10 < n \div 2
            /\ \A t \in DOMAIN resp.value.median :
                  /\ resp.value.p10[t] <= resp.value.median[t]
                  /\ n # 2 => resp.value.median[t] <= resp.value.p90[t]
                  /\ n = 2 => resp.value.p90[t] <= resp.value.median[t]

\* Two paths that differ: p90 is the smaller value, as p10, and the median the
\* larger.
C13_Witness ==
    /\ resp.op = "monte_carlo"
    /\ resp.params.simulations = 2
    /\ \E t \in DOMAIN resp.value.median :
          /\ resp.value.p10[t] = resp.value.p90[t]
          /\ resp.value.p90[t] < resp.value.median[t]

\* Three paths: a strictly ordered band.
C13_WitnessOrdered ==
    /\ resp.op = "monte_carlo"
    /\ resp.params.simulations = 3
    /\ \E t \in DOMAIN resp.value.median : resp.value.p10[t] < resp.value.median[t]
    /\ BandOrdered(resp.value)

====
